---- MODULE Spec2Model ----
(* A model of newspaper.article.Article: the fields an Article holds, the    *)
(* parse() pipeline statement by statement, the validity check and the      *)
(* setters, with the external collaborators (HTML parser, ContentExtractor,  *)
(* DocumentCleaner, VideoExtractor, OutputFormatter) as nondeterministic     *)
(* inputs of the stage that calls them.                                      *)
EXTENDS Integers, Sequences, FiniteSets, TLC

\* ------------------------------------------------------------------ bounds
\* MIN_WORD_COUNT and MIN_SENT_COUNT range over 0..MaxMin
MaxMin == 2
\* longest text a collaborator or a caller hands in; MAX_TEXT ranges over 0..MaxTextLen
MaxTextLen == 2
\* longest title a collaborator or a caller hands in; MAX_TITLE ranges over 0..MaxTitleLen
MaxTitleLen == 1

\* ------------------------------------------------------------ value spaces
\* Strings are sequences of one-character strings.
TextChars == {"a", " ", "."}
TitleChars == {"a", " "}
StringsUpTo(chars, n) == UNION {[1..k -> chars] : k \in 0..n}
\* one text of two paragraphs, joined by a blank line
ParagraphTexts == {<<"a", "\n", "\n", "a">>}
Texts == StringsUpTo(TextChars, MaxTextLen) \cup ParagraphTexts
Titles == StringsUpTo(TitleChars, MaxTitleLen)
\* raw HTML and article HTML are opaque: only their emptiness is looked at
Htmls == {"", "<html>"}
ArticleHtmls == {"", "<p>"}
MetaTypes == {"article", "website"}

None == "None"
NoneDoc == [kind |-> None, meta_type |-> "", cleaned |-> FALSE]
\* what Parser.fromstring can give back: no tree, or a tree with some meta type
ParserResults == {NoneDoc} \cup
                 {[kind |-> "tree", meta_type |-> m, cleaned |-> FALSE] : m \in MetaTypes}

Configs == [MAX_TEXT : 0..MaxTextLen, MAX_TITLE : 0..MaxTitleLen,
            MIN_WORD_COUNT : 0..MaxMin, MIN_SENT_COUNT : 0..MaxMin]

VARIABLES config, html, title, text, article_html, is_parsed,
          top_node, clean_top_node, doc, clean_doc,
          pc, trace, fmt, outcome

fields == <<config, html, title, text, article_html, is_parsed,
            top_node, clean_top_node, doc, clean_doc>>
vars == <<config, html, title, text, article_html, is_parsed,
          top_node, clean_top_node, doc, clean_doc, pc, trace, fmt, outcome>>

\* --------------------------------------------------------- pure functions
Min(a, b) == IF a < b THEN a ELSE b

\* Python's s[:n] for n >= 0
Slice(s, n) == SubSeq(s, 1, Min(n, Len(s)))

\* len(s.split(c)) for a one-character separator: one more than its occurrences
SplitCount(s, c) == 1 + Cardinality({i \in 1..Len(s) : s[i] = c})

\* copy.deepcopy: an equal value that shares nothing with the original
DeepCopy(x) == x

\* the locals `text, article_html` of parse(), unset outside the formatting stage
NoFmt == [set |-> FALSE, text |-> <<>>, article_html |-> ""]

Result(op, result, meta_type) == [op |-> op, result |-> result, meta_type |-> meta_type]

\* ------------------------------------------------------------------- Init
\* Article.__init__ under a configuration cfg
Construct(cfg) ==
    /\ config = cfg
    /\ html \in Htmls
    /\ title \in Titles
    /\ text = <<>>
    /\ article_html = ""
    /\ is_parsed = FALSE
    /\ top_node = None
    /\ clean_top_node = None
    /\ doc = NoneDoc
    /\ clean_doc = NoneDoc
    /\ pc = "idle"
    /\ trace = <<>>
    /\ fmt = NoFmt
    /\ outcome = Result("__init__", "None", "")

\* the caps vary, the validity thresholds are held at their largest
Init == \E cfg \in Configs :
    /\ cfg.MIN_WORD_COUNT = MaxMin /\ cfg.MIN_SENT_COUNT = MaxMin
    /\ Construct(cfg)

\* the validity thresholds vary, the caps let every text and title through
InitValidity == \E cfg \in Configs :
    /\ cfg.MAX_TEXT = MaxTextLen /\ cfg.MAX_TITLE = MaxTitleLen
    /\ Construct(cfg)

\* a call returns (or raises): the frame of parse() is gone
Finish(op, result, meta_type) ==
    /\ pc' = "idle"
    /\ trace' = <<>>
    /\ fmt' = NoFmt
    /\ outcome' = Result(op, result, meta_type)

\* ---------------------------------------------------------------- setters
SetTitleTo(input_title) ==
    IF input_title # <<>> THEN Slice(input_title, config.MAX_TITLE) ELSE title

\* set_text without the slice
SetTextTo_Unsliced(t) == IF t # <<>> THEN t ELSE text

SetTextTo(t) ==
    IF Slice(t, config.MAX_TEXT) # <<>> THEN Slice(t, config.MAX_TEXT) ELSE text

SetArticleHtmlTo(h) == IF h # "" THEN h ELSE article_html

SetHtmlTo(h) == IF h # "" THEN h ELSE html

SetTitle ==
    /\ pc = "idle"
    /\ \E t \in Titles : title' = SetTitleTo(t)
    /\ Finish("set", "None", "")
    /\ UNCHANGED <<config, html, text, article_html, is_parsed,
                   top_node, clean_top_node, doc, clean_doc>>

SetText ==
    /\ pc = "idle"
    /\ \E t \in Texts : text' = SetTextTo(t)
    /\ Finish("set", "None", "")
    /\ UNCHANGED <<config, html, title, article_html, is_parsed,
                   top_node, clean_top_node, doc, clean_doc>>

SetHtml ==
    /\ pc = "idle"
    /\ \E h \in Htmls : html' = SetHtmlTo(h)
    /\ Finish("set", "None", "")
    /\ UNCHANGED <<config, title, text, article_html, is_parsed,
                   top_node, clean_top_node, doc, clean_doc>>

SetArticleHtml ==
    /\ pc = "idle"
    /\ \E h \in ArticleHtmls : article_html' = SetArticleHtmlTo(h)
    /\ Finish("set", "None", "")
    /\ UNCHANGED <<config, html, title, text, is_parsed,
                   top_node, clean_top_node, doc, clean_doc>>

\* ------------------------------------------------------------ parse()
Log(stage) == trace' = Append(trace, stage)

\* line 142: self.doc = self.config.get_parser().fromstring(self.html)
Parse ==
    /\ pc = "idle"
    /\ \E d \in ParserResults : doc' = d
    /\ pc' = "snapshot"
    /\ trace' = <<"fromstring">>
    /\ fmt' = NoFmt
    /\ outcome' = Result("parse", "running", "")
    /\ UNCHANGED <<config, html, title, text, article_html, is_parsed,
                   top_node, clean_top_node, clean_doc>>

\* build() does nothing but call parse()
Build == Parse

\* a parse() that marks the Article unparsed again when there is no tree
ParseSnapshot_Resetting ==
    /\ pc = "snapshot"
    /\ clean_doc' = DeepCopy(doc)
    /\ IF doc.kind = None
       THEN /\ Finish("parse", "returned_without_tree", "")
            /\ is_parsed' = FALSE
       ELSE /\ pc' = "candidate"
            /\ Log("deepcopy_doc")
            /\ UNCHANGED <<fmt, outcome, is_parsed>>
    /\ UNCHANGED <<config, html, title, text, article_html,
                   top_node, clean_top_node, doc>>

\* lines 143-147: the snapshot, then the silent return when there is no tree
ParseSnapshot ==
    /\ pc = "snapshot"
    /\ clean_doc' = DeepCopy(doc)
    /\ IF doc.kind = None
       THEN Finish("parse", "returned_without_tree", "")
       ELSE /\ pc' = "candidate"
            /\ Log("deepcopy_doc")
            /\ UNCHANGED <<fmt, outcome>>
    /\ UNCHANGED <<config, html, title, text, article_html, is_parsed,
                   top_node, clean_top_node, doc>>

\* lines 150-151: get_parse_candidate(); with a falsy html it goes to
\* URLHelper, whose hashlib.md5(str) raises TypeError
ParseCandidate ==
    /\ pc = "candidate"
    /\ IF html = ""
       THEN Finish("parse", "TypeError", "")
       ELSE /\ pc' = "metadata"
            /\ UNCHANGED <<trace, fmt, outcome>>
    /\ UNCHANGED fields

\* lines 153-184: the metadata pulls on the snapshot and their setters;
\* set_authors raises when the extractor did not hand over a list
ParseMetadata ==
    /\ pc = "metadata"
    /\ \E t \in Titles : title' = SetTitleTo(t)
    /\ \E authors_is_list \in BOOLEAN :
          IF authors_is_list
          THEN /\ pc' = "clean"
               /\ Log("metadata")
               /\ UNCHANGED <<fmt, outcome>>
          ELSE Finish("parse", "Exception", "")
    /\ UNCHANGED <<config, html, text, article_html, is_parsed,
                   top_node, clean_top_node, doc, clean_doc>>

\* line 187: self.doc = document_cleaner.clean(self.doc)
ParseClean ==
    /\ pc = "clean"
    /\ doc' = [doc EXCEPT !.cleaned = TRUE]
    /\ pc' = "score"
    /\ Log("document_cleaner")
    /\ UNCHANGED <<config, html, title, text, article_html, is_parsed,
                   top_node, clean_top_node, clean_doc, fmt, outcome>>

\* a parse() without the test of line 190
AfterScore_Unguarded(node) == "videos"

\* after the scorer: the branch of line 190
AfterScore(node) == IF node # None THEN "videos" ELSE "set_parsed"

\* lines 189-190: self.top_node = self.extractor.calculate_best_node(self.doc)
ParseScore ==
    /\ pc = "score"
    /\ \E node \in {None, "node"} :
          /\ top_node' = node
          /\ pc' = AfterScore(node)
    /\ Log("calculate_best_node")
    /\ UNCHANGED <<config, html, title, text, article_html, is_parsed,
                   clean_top_node, doc, clean_doc, fmt, outcome>>

\* lines 191-192: the video collaborator (self.movies is not tracked)
ParseVideos ==
    /\ pc = "videos"
    /\ pc' = "post_cleanup"
    /\ Log("get_videos")
    /\ UNCHANGED <<fields, fmt, outcome>>

\* line 194: self.top_node = self.extractor.post_cleanup(self.top_node)
ParsePostCleanup ==
    /\ pc = "post_cleanup"
    /\ top_node' = "pruned_node"
    /\ pc' = "copy_top_node"
    /\ Log("post_cleanup")
    /\ UNCHANGED <<config, html, title, text, article_html, is_parsed,
                   clean_top_node, doc, clean_doc, fmt, outcome>>

\* line 195: self.clean_top_node = copy.deepcopy(self.top_node)
ParseCopyTopNode ==
    /\ pc = "copy_top_node"
    /\ clean_top_node' = DeepCopy(top_node)
    /\ pc' = "format"
    /\ Log("deepcopy_top_node")
    /\ UNCHANGED <<config, html, title, text, article_html, is_parsed,
                   top_node, doc, clean_doc, fmt, outcome>>

\* lines 197-200: text, article_html = output_formatter.get_formatted(top_node);
\* set_article_html(article_html); set_text(text)
ParseFormat ==
    /\ pc = "format"
    /\ \E t \in Texts, h \in ArticleHtmls :
          /\ fmt' = [set |-> TRUE, text |-> t, article_html |-> h]
          /\ article_html' = SetArticleHtmlTo(h)
          /\ text' = SetTextTo(t)
    /\ pc' = "set_parsed"
    /\ trace' = trace \o <<"get_formatted", "assign">>
    /\ UNCHANGED <<config, html, title, is_parsed,
                   top_node, clean_top_node, doc, clean_doc, outcome>>

\* lines 202-203: self.is_parsed = True; release_resources() touches files
\* only; then parse() returns
ParseSetParsed ==
    /\ pc = "set_parsed"
    /\ is_parsed' = TRUE
    /\ Finish("parse", "completed", "")
    /\ UNCHANGED <<config, html, title, text, article_html,
                   top_node, clean_top_node, doc, clean_doc>>

\* -------------------------------------------------------- is_valid_body()
wordcount(t) == SplitCount(t, " ")
sentcount(t) == SplitCount(t, ".")

\* is_valid_body without the word-count test of lines 225-227
ValidBody_NoWordCount(meta_type, cfg, ttl, txt, h) ==
    IF meta_type = "article" /\ wordcount(txt) > cfg.MIN_WORD_COUNT THEN TRUE
    ELSE IF SplitCount(ttl, " ") < 2 THEN FALSE
    ELSE IF sentcount(txt) < cfg.MIN_SENT_COUNT THEN FALSE
    ELSE IF h = "" THEN FALSE
    ELSE TRUE

\* lines 216-238, the decision once meta_type is known
ValidBody(meta_type, cfg, ttl, txt, h) ==
    IF meta_type = "article" /\ wordcount(txt) > cfg.MIN_WORD_COUNT THEN TRUE
    ELSE IF SplitCount(ttl, " ") < 2 THEN FALSE
    ELSE IF wordcount(txt) < cfg.MIN_WORD_COUNT THEN FALSE
    ELSE IF sentcount(txt) < cfg.MIN_SENT_COUNT THEN FALSE
    ELSE IF h = "" THEN FALSE
    ELSE TRUE

\* extractor.get_meta_type(clean_doc): the meta type the snapshot declares; on
\* a snapshot that is None the collaborator either raises or finds no type
GetMetaType(d) ==
    IF d.kind = None
    THEN {[raised |-> TRUE, meta_type |-> ""], [raised |-> FALSE, meta_type |-> ""]}
    ELSE {[raised |-> FALSE, meta_type |-> d.meta_type]}

PyBool(b) == IF b THEN "True" ELSE "False"

\* is_valid_body without the guard of lines 209-211
MustRaiseNotParsed_Never == FALSE

\* the guard of lines 209-211
MustRaiseNotParsed == ~is_parsed

IsValidBody ==
    /\ pc = "idle"
    /\ IF MustRaiseNotParsed
       THEN Finish("is_valid_body", "ArticleException", "")
       ELSE \E m \in GetMetaType(clean_doc) :
               IF m.raised
               THEN Finish("is_valid_body", "AttributeError", "")
               ELSE Finish("is_valid_body",
                           PyBool(ValidBody(m.meta_type, config, title, text, html)),
                           m.meta_type)
    /\ UNCHANGED fields

\* lines 361-366
ThrowIfNotParsedVerbose ==
    /\ pc = "idle"
    /\ Finish("throw_if_not_parsed_verbose",
              IF ~is_parsed THEN "ArticleException" ELSE "None", "")
    /\ UNCHANGED fields

ParseStep ==
    \/ ParseSnapshot \/ ParseCandidate \/ ParseMetadata \/ ParseClean
    \/ ParseScore \/ ParseVideos \/ ParsePostCleanup \/ ParseCopyTopNode
    \/ ParseFormat \/ ParseSetParsed

Next ==
    \/ Parse \/ Build \/ ParseStep
    \/ IsValidBody \/ ThrowIfNotParsedVerbose
    \/ SetTitle \/ SetText \/ SetHtml \/ SetArticleHtml

\* parse(), build(), set_html() and the two queries, without the direct setters
NextPipeline ==
    \/ Parse \/ Build \/ ParseStep
    \/ IsValidBody \/ ThrowIfNotParsedVerbose
    \/ SetHtml

Spec == Init /\ [][Next]_vars

SpecValidity == InitValidity /\ [][NextPipeline]_vars
\* ------------------------------------------------------------------ claims
IsPrefix(s, t) == Len(s) <= Len(t) /\ SubSeq(t, 1, Len(s)) = s
Stages(s) == {s[i] : i \in 1..Len(s)}
Raised == {"TypeError", "Exception"}

\* C1: is_parsed starts False, is set only by the last statement of a parse()
\* run that then completes, and is never set back to False by any operation.
C1_ParsedNeverReversed ==
    /\ ~is_parsed
    /\ [][/\ is_parsed => is_parsed'
          /\ is_parsed' # is_parsed =>
                pc = "set_parsed" /\ outcome' = Result("parse", "completed", "")]_vars

\* a later parse() whose parser gave no tree returned, and the Article is still Parsed
C1_Witness ==
    is_parsed /\ outcome = Result("parse", "returned_without_tree", "")

\* C2: is_valid_body() on an Unparsed Article raises ArticleException and
\* changes no field; it returns a boolean only on a Parsed Article.
C2_ValidityNeedsParsed ==
    [][outcome'.op = "is_valid_body" =>
          /\ UNCHANGED fields
          /\ ~is_parsed => outcome'.result = "ArticleException"
          /\ outcome'.result \in {"True", "False"} => is_parsed]_vars

C2_Witness ==
    ~is_parsed /\ outcome = Result("is_valid_body", "ArticleException", "")

\* C3: every parse() call that has ended either left the Article Parsed or
\* raised an error; it never returns normally with the Article still Unparsed.
C3_ParseCompletesOrRaises ==
    (outcome.op = "parse" /\ outcome.result # "running") =>
        (is_parsed \/ outcome.result \in Raised)

\* C4: after a parse() run in which the scorer found no node, the run has
\* completed, the Article is Parsed and top_node, clean_top_node, text and
\* article_html are all empty.
C4_NoNodeLeavesResultEmpty ==
    (outcome = Result("parse", "completed", "") /\ top_node = None) =>
        /\ is_parsed
        /\ clean_top_node = None
        /\ text = <<>>
        /\ article_html = ""

\* C5: once parse() has completed on a document in which the scorer found
\* nothing, the text is empty and is_valid_body() returns False, whatever the
\* thresholds, the meta type and the title.
C5_NoTextIsInvalid ==
    (outcome.op = "is_valid_body" /\ outcome.result \in {"True", "False"}
        /\ top_node = None /\ clean_top_node = None) =>
        (text = <<>> /\ outcome.result = "False")

\* C6: on a Parsed Article whose text has fewer words (len(text.split(' ')))
\* than MIN_WORD_COUNT and whose declared meta type is not 'article',
\* is_valid_body() returns False.
C6_FewWordsIsInvalid ==
    (outcome.op = "is_valid_body" /\ outcome.result \in {"True", "False"}
        /\ SplitCount(text, " ") < config.MIN_WORD_COUNT
        /\ outcome.meta_type # "article") =>
        outcome.result = "False"

\* the word count alone decides: two title words, enough sentences, some html
C6_Witness ==
    /\ outcome = Result("is_valid_body", "False", "website")
    /\ SplitCount(text, " ") < config.MIN_WORD_COUNT
    /\ SplitCount(title, " ") >= 2
    /\ SplitCount(text, ".") >= config.MIN_SENT_COUNT
    /\ html # ""

\* the prefixes of t that end where a paragraph ends: before a blank line, or
\* at the end of t, or the empty prefix
ParagraphCuts(t) ==
    {0, Len(t)} \cup {i \in 1..Len(t) : i + 2 <= Len(t) /\ t[i+1] = "\n" /\ t[i+2] = "\n"}
LongestParagraphPrefix(t, cap) ==
    LET fit == {i \in ParagraphCuts(t) : i <= cap}
        best == CHOOSE i \in fit : \A j \in fit : j <= i
    IN  SubSeq(t, 1, best)

\* C7: when the formatted text is longer than MAX_TEXT, the text parse()
\* stores is its longest prefix that ends at a paragraph boundary and is no
\* longer than MAX_TEXT.
C7_CutAtParagraph ==
    (pc = "set_parsed" /\ fmt.set /\ Len(fmt.text) > config.MAX_TEXT) =>
        text = LongestParagraphPrefix(fmt.text, config.MAX_TEXT)

\* C8: the stored text is never longer than MAX_TEXT.
C8_TextWithinCap == Len(text) <= config.MAX_TEXT

\* parse() has just stored a formatted text that was longer than the cap
C8_Witness ==
    /\ pc = "set_parsed" /\ fmt.set
    /\ Len(fmt.text) > config.MAX_TEXT
    /\ config.MAX_TEXT > 0
    /\ text = SubSeq(fmt.text, 1, config.MAX_TEXT)

\* C9: on a Parsed Article the title is never longer than MAX_TITLE.
C9_TitleWithinCap == is_parsed => Len(title) <= config.MAX_TITLE

\* the order of the stages of one run when a node is found, and when none is
StagesFound ==
    <<"fromstring", "deepcopy_doc", "metadata", "document_cleaner",
      "calculate_best_node", "get_videos", "post_cleanup", "deepcopy_top_node",
      "get_formatted", "assign">>
StagesNoNode == SubSeq(StagesFound, 1, 5)

\* C10: the stages of a parse() run happen in the one fixed order, none
\* skipped or repeated; video discovery, post-cleanup and formatting never run
\* when the scorer found no node; is_parsed is set only after every stage.
C10_StageOrder ==
    /\ [](/\ IsPrefix(trace, StagesFound)
          /\ ("calculate_best_node" \in Stages(trace) /\ top_node = None)
                => IsPrefix(trace, StagesNoNode)
          /\ pc = "set_parsed" =>
                trace = IF top_node = None THEN StagesNoNode ELSE StagesFound)
    /\ [][is_parsed' # is_parsed => pc = "set_parsed"]_vars

\* a run that found a node is about to set is_parsed, every stage done
C10_Witness == pc = "set_parsed" /\ trace = StagesFound /\ ~is_parsed
====
